---- MODULE Spec2Model ----
(***************************************************************************)
(* A model of travle.py: the graph validator (check_graph), the            *)
(* shortest-path enumerator (bfs, get_paths, get_paths_aux) and the guess  *)
(* session (game).  Node labels are the integers 1..NumNodes; their        *)
(* numeric order stands for the lexicographic order of the country names.  *)
(* A Python dict is a record [keys, nbrs]: keys is the insertion order of  *)
(* the keys, nbrs maps each key to its neighbour list.                     *)
(***************************************************************************)
EXTENDS Integers, Sequences, FiniteSets, TLC

\* ------------------------------------------------------------------ bounds
\* Labels that may occur in the data set and on the command line.
NumNodes == 4
\* Undirected edges of a well-formed data set.
MaxEdges == 5
\* Labels of the malformed data sets (arbitrary directed adjacency).
BadNodes == 2

\* Length of the paths handed to print_incomplete_path on its own.
MaxPath == 4

\* Words on the command line after the program's name.
MaxArgs == 5
\* The largest paths number tried.
MaxCount == 2

\* game(): max_mistakes = 3
max_mistakes == 3

Nodes == 1..NumNodes

\* Python's None (parent_map[source]); a real parent list is never empty.
None == << >>

\* ----------------------------------------------------------------- helpers
Range(s) == {s[i] : i \in 1..Len(s)}

Min(S) == CHOOSE x \in S : \A y \in S : x <= y

Max(S) == CHOOSE x \in S : \A y \in S : x >= y

RECURSIVE Ascending(_)
Ascending(S) == IF S = {} THEN << >> ELSE <<Min(S)>> \o Ascending(S \ {Min(S)})

RECURSIVE Descending(_)
Descending(S) == IF S = {} THEN << >> ELSE <<Max(S)>> \o Descending(S \ {Max(S)})

\* A file writes a set of labels down in some order: here ascending or descending.
Listed(S, rev) == IF rev THEN Descending(S) ELSE Ascending(S)

\* list.reverse()
Reverse(s) == [i \in 1..Len(s) |-> s[Len(s) + 1 - i]]

\* [x for x in s if x not in drop]
RECURSIVE Without(_, _)
Without(s, drop) ==
    IF s = << >> THEN << >>
    ELSE IF Head(s) \in drop THEN Without(Tail(s), drop)
    ELSE <<Head(s)>> \o Without(Tail(s), drop)

\* --------------------------------------------------------------- data sets
\* parse(): one record per line, label,neighbour1,neighbour2,...
Edges(K) == {e \in SUBSET K : Cardinality(e) = 2}

\* Symmetric and closed by construction (possibly disconnected): the keys are
\* 1..k and every edge is written on both of its ends' lines.
WellFormed ==
    {[keys |-> Listed(1..k, rev),
      nbrs |-> [n \in 1..k |-> Listed({m \in 1..k : {n, m} \in E}, rev)]] :
        <<k, E, rev>> \in
          {x \in UNION {{<<k, E, rev>> : E \in SUBSET Edges(1..k), rev \in BOOLEAN} :
                            k \in 1..NumNodes} : Cardinality(x[2]) <= MaxEdges}}

\* Any adjacency at all over a few labels: key lines may be missing and an
\* edge may be written on one end's line only.
Malformed ==
    UNION {{[keys |-> Listed(K, rev),
             nbrs |-> [n \in K |-> Listed(adj[n], rev)]] :
                adj \in [K -> SUBSET (1..BadNodes)], rev \in BOOLEAN} :
           K \in (SUBSET (1..BadNodes)) \ {{}}}

Graphs == WellFormed \cup {g \in Malformed : \A n \in Range(g.keys) : n \notin Range(g.nbrs[n])}

KeySet(graph) == Range(graph.keys)

\* graph[node]
Neighbors(graph, node) == graph.nbrs[node]

\* ---------------------------------------------------------------- validator
\* What a check returns and prints: error is its return value, out the lines
\* it printed, each [kind, nodes] with the node names the line mentions.
Passed == [error |-> FALSE, out |-> << >>]

Failed(kind, nodes) == [error |-> TRUE, out |-> <<[kind |-> kind, nodes |-> nodes]>>]

\* Mutant: the target is not looked up.
check_entries_source_only(graph, src, tgt) ==
    IF src \notin KeySet(graph) THEN Failed("UnknownSource", <<src>>) ELSE Passed

check_entries(graph, src, tgt) ==
    IF src \notin KeySet(graph) THEN Failed("UnknownSource", <<src>>)
    ELSE IF tgt \notin KeySet(graph) THEN Failed("UnknownTarget", <<tgt>>)
    ELSE Passed

\* Mutant: the neighbour's own line is not read for the way back.
RECURSIVE check_neighbors_dangling_only(_, _, _)
check_neighbors_dangling_only(graph, node, neighbors) ==
    IF neighbors = << >> THEN Passed
    ELSE IF Head(neighbors) \notin KeySet(graph) THEN Failed("NotAKey", <<Head(neighbors)>>)
    ELSE check_neighbors_dangling_only(graph, node, Tail(neighbors))

\* The inner loop of check_adjacency over one node's neighbours.
RECURSIVE check_neighbors(_, _, _)
check_neighbors(graph, node, neighbors) ==
    IF neighbors = << >> THEN Passed
    ELSE LET neighbor == Head(neighbors) IN
         IF neighbor \notin KeySet(graph) THEN Failed("NotAKey", <<neighbor>>)
         ELSE IF node \notin Range(Neighbors(graph, neighbor))
              THEN Failed("OneWay", <<node, neighbor>>)
         ELSE check_neighbors(graph, node, Tail(neighbors))

\* The outer loop of check_adjacency over graph.items().
RECURSIVE check_items(_, _)
check_items(graph, keys) ==
    IF keys = << >> THEN Passed
    ELSE LET r == check_neighbors(graph, Head(keys), Neighbors(graph, Head(keys))) IN
         IF r.error THEN r ELSE check_items(graph, Tail(keys))

check_adjacency(graph) == check_items(graph, graph.keys)

\* Mutant: no "if neighbor not in queue".
RECURSIVE Enqueue_unguarded(_, _)
Enqueue_unguarded(q, neighbors) ==
    IF neighbors = << >> THEN q
    ELSE Enqueue_unguarded(Append(q, Head(neighbors)), Tail(neighbors))

\* for neighbor in unvisitedNeighbors: if neighbor not in queue: queue.append(neighbor)
RECURSIVE Enqueue(_, _)
Enqueue(q, neighbors) ==
    IF neighbors = << >> THEN q
    ELSE Enqueue(IF Head(neighbors) \in Range(q) THEN q ELSE Append(q, Head(neighbors)),
                 Tail(neighbors))

\* The while loop of check_connectedness; the value is the final visited list.
RECURSIVE connectedness_loop(_, _, _)
connectedness_loop(graph, seen, q) ==
    IF q = << >> THEN seen
    ELSE LET cur == Head(q)
             seen1 == Append(seen, cur)
             unvisitedNeighbors == Without(Neighbors(graph, cur), Range(seen1))
         IN  connectedness_loop(graph, seen1, Enqueue(Tail(q), unvisitedNeighbors))

\* Mutant: the count of visited nodes is compared one off.
check_connectedness_off_by_one(graph) ==
    LET seen == connectedness_loop(graph, << >>, <<Head(graph.keys)>>)
        disconnected == Without(graph.keys, Range(seen))
    IN  IF Len(seen) < Len(graph.keys) - 1 THEN Failed("Disconnected", disconnected)
        ELSE Passed

check_connectedness(graph) ==
    LET seen == connectedness_loop(graph, << >>, <<Head(graph.keys)>>)
        disconnected == Without(graph.keys, Range(seen))
    IN  IF Len(seen) < Len(graph.keys) THEN Failed("Disconnected", disconnected)
        ELSE Passed

\* Mutant: the entry and the adjacency check both run ("|" for "or").
check_graph_eager(graph, src, tgt) ==
    LET e == check_entries(graph, src, tgt)
        a == check_adjacency(graph)
    IN  IF e.error \/ a.error THEN [error |-> TRUE, out |-> e.out \o a.out]
        ELSE check_connectedness(graph)

\* error = check_entries(...) or check_adjacency(...) or check_connectedness(...)
check_graph(graph, src, tgt) ==
    LET e == check_entries(graph, src, tgt) IN
    IF e.error THEN e
    ELSE LET a == check_adjacency(graph) IN
         IF a.error THEN a
         ELSE check_connectedness(graph)

\* --------------------------------------------------------------- enumerator
\* Mutant: a single-parent BFS, which keeps the first parent only.
RECURSIVE RecordParents_first_only(_, _, _)
RecordParents_first_only(pm, cur, neighbors) ==
    IF neighbors = << >> THEN pm
    ELSE LET neighbor == Head(neighbors)
             pm1 == IF neighbor \in DOMAIN pm THEN pm
                    ELSE [n \in DOMAIN pm \cup {neighbor} |->
                             IF n = neighbor THEN <<cur>> ELSE pm[n]]
         IN  RecordParents_first_only(pm1, cur, Tail(neighbors))

\* Mutant: a further parent is put in front of the list (insert(0, current)).
RECURSIVE RecordParents_in_front(_, _, _)
RecordParents_in_front(pm, cur, neighbors) ==
    IF neighbors = << >> THEN pm
    ELSE LET neighbor == Head(neighbors)
             pm1 == IF neighbor \in DOMAIN pm
                    THEN [pm EXCEPT ![neighbor] = <<cur>> \o pm[neighbor]]
                    ELSE [n \in DOMAIN pm \cup {neighbor} |->
                             IF n = neighbor THEN <<cur>> ELSE pm[n]]
         IN  RecordParents_in_front(pm1, cur, Tail(neighbors))

\* The body of bfs's inner for loop over unvisitedNeighbors, on parent_map:
\* a neighbour already in the map gets current appended, a new one gets [current].
RECURSIVE RecordParents(_, _, _)
RecordParents(pm, cur, neighbors) ==
    IF neighbors = << >> THEN pm
    ELSE LET neighbor == Head(neighbors)
             pm1 == IF neighbor \in DOMAIN pm
                    THEN [pm EXCEPT ![neighbor] = Append(pm[neighbor], cur)]
                    ELSE [n \in DOMAIN pm \cup {neighbor} |->
                             IF n = neighbor THEN <<cur>> ELSE pm[n]]
         IN  RecordParents(pm1, cur, Tail(neighbors))

\* path = []; while current != source: path.append(current);
\* current = parent_map[current][0]; minimum = len(path)
RECURSIVE chain_length(_, _, _)
chain_length(pm, node, src) ==
    IF node = src THEN 0 ELSE 1 + chain_length(pm, pm[node][1], src)

\* get_paths_aux works on list objects: path.reverse() changes the list the
\* caller passed, which is the caller's new_path, shared by the calls for all
\* parents and, once appended, by the entry in paths.  The value is the paths
\* list after the call, the content of the passed list after the call, and
\* whether the passed list was appended to paths.
RECURSIVE get_paths_aux(_, _, _, _, _)
RECURSIVE for_parents(_, _, _, _, _, _)
\* Mutant: no pruning of a partial path longer than the minimum.
get_paths_aux_unpruned(ps, path, node, pm, min) ==
    IF pm[node] = None
    THEN [paths |-> Append(ps, Reverse(path)), path |-> Reverse(path), stored |-> TRUE]
    ELSE [paths |-> for_parents(ps, Append(path, node), {}, pm[node], pm, min),
          path |-> path, stored |-> FALSE]

get_paths_aux(ps, path, node, pm, min) ==
    IF Len(path) > min THEN [paths |-> ps, path |-> path, stored |-> FALSE]
    ELSE IF pm[node] = None
         THEN [paths |-> Append(ps, Reverse(path)), path |-> Reverse(path), stored |-> TRUE]
    ELSE [paths |-> for_parents(ps, Append(path, node), {}, pm[node], pm, min),
          path |-> path, stored |-> FALSE]

\* for parent in parent_map[node]: get_paths_aux(paths, new_path, ...); aliases
\* are the places of paths that hold the new_path object itself.
for_parents(ps, new_path, aliases, parents, pm, min) ==
    IF parents = << >> THEN ps
    ELSE LET r == get_paths_aux(ps, new_path, Head(parents), pm, min)
             ps1 == [i \in 1..Len(r.paths) |-> IF i \in aliases THEN r.path ELSE r.paths[i]]
             al1 == IF r.stored THEN aliases \cup {Len(r.paths)} ELSE aliases
         IN  for_parents(ps1, r.path, al1, Tail(parents), pm, min)

\* Python's order on lists: the first place that differs decides, a proper
\* prefix comes first.
RECURSIVE ListLess(_, _)
ListLess(a, b) ==
    IF b = << >> THEN FALSE
    ELSE IF a = << >> THEN TRUE
    ELSE IF Head(a) # Head(b) THEN Head(a) < Head(b)
    ELSE ListLess(Tail(a), Tail(b))

\* Insert p into the sorted list s, after the entries equal to it.
RECURSIVE Insert(_, _)
Insert(s, p) ==
    IF s = << >> THEN <<p>>
    ELSE IF ListLess(p, Head(s)) THEN <<p>> \o s
    ELSE <<Head(s)>> \o Insert(Tail(s), p)

\* paths.sort()
RECURSIVE Sort(_)
Sort(s) == IF s = << >> THEN << >> ELSE Insert(Sort(SubSeq(s, 1, Len(s) - 1)), s[Len(s)])

\* Mutant: no paths.sort().
get_paths_unsorted(src, tgt, pm, min) ==
    get_paths_aux(<< >>, << >>, tgt, pm, min).paths

get_paths(src, tgt, pm, min) ==
    Sort(get_paths_aux(<< >>, << >>, tgt, pm, min).paths)

\* ---------------------------------------------------------------- presenter
\* The pieces print_incomplete_path prints: a node's label, the gap "..." and
\* the arrow " -> ".
Gap == 0

Arrow == -1

RECURSIVE incomplete_from(_, _, _, _)
\* Mutant: no "if gap: continue", every hidden node prints its own "...".
incomplete_from_each_hidden(path, known, i, gap) ==
    IF i > Len(path) THEN << >>
    ELSE IF path[i] \in known
         THEN (IF gap THEN <<Arrow>> ELSE << >>) \o <<path[i]>>
              \o (IF i < Len(path) THEN <<Arrow>> ELSE << >>)
              \o incomplete_from(path, known, i + 1, FALSE)
    ELSE <<Gap>> \o incomplete_from(path, known, i + 1, TRUE)

incomplete_from(path, known, i, gap) ==
    IF i > Len(path) THEN << >>
    ELSE IF path[i] \in known
         THEN (IF gap THEN <<Arrow>> ELSE << >>) \o <<path[i]>>
              \o (IF i < Len(path) THEN <<Arrow>> ELSE << >>)
              \o incomplete_from(path, known, i + 1, FALSE)
    ELSE IF gap THEN incomplete_from(path, known, i + 1, TRUE)
    ELSE <<Gap>> \o incomplete_from(path, known, i + 1, TRUE)

print_incomplete_path(path, known) == incomplete_from(path, known, 1, FALSE)

\* ------------------------------------------------------------ guess session
\* Mutant: the test of the win check, equality, for issubset.
RECURSIVE get_remaining_paths_exact(_, _)
get_remaining_paths_exact(ps, known) ==
    IF ps = << >> THEN << >>
    ELSE IF known = Range(Head(ps))
         THEN <<Head(ps)>> \o get_remaining_paths_exact(Tail(ps), known)
    ELSE get_remaining_paths_exact(Tail(ps), known)

\* [path for path in paths if guesses.issubset(set(path))]
RECURSIVE get_remaining_paths(_, _)
get_remaining_paths(ps, known) ==
    IF ps = << >> THEN << >>
    ELSE IF known \subseteq Range(Head(ps))
         THEN <<Head(ps)>> \o get_remaining_paths(Tail(ps), known)
    ELSE get_remaining_paths(Tail(ps), known)

\* path.pop(-1)
Trimmed(path) == SubSeq(path, 1, Len(path) - 1)

\* Mutant: a path that contains the guess set wins.
Winning_superset(ps, known) == {i \in 1..Len(ps) : known \subseteq Range(ps[i])}

\* The paths of the "Target reached" loop that end the game, in order.
Winning(ps, known) ==
    {i \in 1..Len(ps) : Len(ps[i]) = Cardinality(known) /\ Range(ps[i]) = known}

\* Mutant: the wrong guess stays in the guess set.
remove_guess_kept(known, g) == known

\* guesses.remove(guess)
remove_guess(known, g) == known \ {g}

\* Mutant: one turn more.
loop_condition_inclusive(n) == n <= max_mistakes

\* while nb_mistakes < max_mistakes
loop_condition(n) == n < max_mistakes

\* -------------------------------------------------------------------- state
VARIABLES
    argv,             \* the command line: len(sys.argv) and the arguments
    exited,           \* how usage() ended the process, if it did
    countries,        \* the parsed data set
    game_mode,        \* sys.argv[1]: "search" or "game"
    source, target,   \* sys.argv[2], sys.argv[3], or game()'s random choice
    pc,               \* where the program is
    printed,          \* the error line printed before usage()
    bfs_calls,        \* how many times bfs was entered
    visited, queue, current, parent_map,   \* bfs's locals
    paths, minimum,   \* bfs's result, as the caller holds it
    remaining_paths, guesses, nb_mistakes, \* game()'s locals
    guess,            \* the last input read
    shown             \* what the last turn printed

vars == <<argv, exited, countries, game_mode, source, target, pc, printed, bfs_calls,
          visited, queue, current, parent_map, paths, minimum,
          remaining_paths, guesses, nb_mistakes, guess, shown>>

bfs_vars == <<visited, queue, current, parent_map>>

game_vars == <<remaining_paths, guesses, nb_mistakes, guess, shown>>

Nothing == [kind |-> "nothing"]

\* The process has not been ended by usage().
Running == [by |-> "none"]

\* usage(): the text, then exit() without an argument, which is SystemExit(None):
\* the process ends with status 0.
usage == [by |-> "usage", status |-> 0]

\* sys.argv: len is len(sys.argv), mode is sys.argv[1], source and target are
\* sys.argv[2] and sys.argv[3], count is sys.argv[4] as int() sees it; an
\* argument that is not there is "" or 0.
NoCount == [given |-> FALSE]

Arguments(len, mode, src, tgt, count) ==
    [len |-> len, mode |-> mode, source |-> src, target |-> tgt, count |-> count]

\* The state in which game() and search() start on a well-formed command line
\* without a paths number.
Init ==
    /\ countries \in Graphs
    /\ game_mode \in {"search", "game"}
    /\ IF game_mode = "search"
       THEN source \in Nodes /\ target \in Nodes /\ pc = "check"
       ELSE source = 0 /\ target = 0 /\ pc = "choose"
    /\ argv = IF game_mode = "search"
              THEN Arguments(4, "search", source, target, NoCount)
              ELSE Arguments(2, "game", 0, 0, NoCount)
    /\ exited = Running
    /\ printed = << >>
    /\ bfs_calls = 0
    /\ visited = {} /\ queue = << >> /\ current = 0
    /\ parent_map = [n \in {} |-> None]
    /\ paths = << >> /\ minimum = 0
    /\ remaining_paths = << >> /\ guesses = {} /\ nb_mistakes = 0
    /\ guess = 0
    /\ shown = Nothing

\* game(): source = random.choice(list(countries.keys())); target = source
GameChoose ==
    /\ pc = "choose"
    /\ source' \in KeySet(countries)
    /\ target' = source'
    /\ pc' = "draw"
    /\ UNCHANGED <<argv, countries, game_mode, printed, bfs_calls, paths, minimum>>
    /\ UNCHANGED bfs_vars
    /\ UNCHANGED game_vars
    /\ UNCHANGED exited

\* game(): the loop that draws target again while it is the source or one of
\* the source's neighbours.  The loop ends with any key that is neither; when
\* there is none it never ends, and the program stays here.
GameDraw ==
    /\ pc = "draw"
    /\ target' \in KeySet(countries) \ ({source} \cup Range(Neighbors(countries, source)))
    /\ pc' = "check"
    /\ UNCHANGED <<argv, countries, game_mode, source, printed, bfs_calls, paths, minimum>>
    /\ UNCHANGED bfs_vars
    /\ UNCHANGED game_vars
    /\ UNCHANGED exited

\* check_graph(countries, source, target): on an error usage() prints and exits.
CheckGraph ==
    /\ pc = "check"
    /\ LET r == check_graph(countries, source, target) IN
          /\ printed' = r.out
          /\ pc' = IF r.error THEN "exit" ELSE "call_bfs"
          /\ exited' = IF r.error THEN usage ELSE exited
    /\ UNCHANGED <<argv, countries, game_mode, source, target, bfs_calls, paths, minimum>>
    /\ UNCHANGED bfs_vars
    /\ UNCHANGED game_vars

\* Mutant: no "if source == target: return [], 0".
BfsEnter_no_early_return ==
    /\ pc = "call_bfs"
    /\ bfs_calls' = bfs_calls + 1
    /\ visited' = {}
    /\ queue' = <<source>>
    /\ current' = source
    /\ parent_map' = [n \in {source} |-> None]
    /\ pc' = "bfs"
    /\ UNCHANGED <<paths, minimum>>
    /\ UNCHANGED <<argv, countries, game_mode, source, target, printed>>
    /\ UNCHANGED game_vars
    /\ UNCHANGED exited

\* bfs(): the early return, or the locals before the loop.
BfsEnter ==
    /\ pc = "call_bfs"
    /\ bfs_calls' = bfs_calls + 1
    /\ IF source = target
       THEN /\ paths' = << >>
            /\ minimum' = 0
            /\ pc' = "returned"
            /\ UNCHANGED bfs_vars
       ELSE /\ visited' = {}
            /\ queue' = <<source>>
            /\ current' = source
            /\ parent_map' = [n \in {source} |-> None]
            /\ pc' = "bfs"
            /\ UNCHANGED <<paths, minimum>>
    /\ UNCHANGED <<argv, countries, game_mode, source, target, printed>>
    /\ UNCHANGED game_vars
    /\ UNCHANGED exited

\* One pass of "while current != target".  queue.pop(0) on an empty list and
\* graph[current] on a missing key raise, which ends the program.
BfsStep ==
    /\ pc = "bfs"
    /\ current # target
    /\ IF queue = << >> \/ Head(queue) \notin KeySet(countries)
       THEN /\ pc' = "crash"
            /\ UNCHANGED bfs_vars
       ELSE LET cur == Head(queue)
                seen == visited \cup {cur}
                unvisitedNeighbors == Without(Neighbors(countries, cur), seen)
            IN  /\ current' = cur
                /\ visited' = seen
                /\ queue' = Enqueue(Tail(queue), unvisitedNeighbors)
                /\ parent_map' = RecordParents(parent_map, cur, unvisitedNeighbors)
                /\ pc' = "bfs"
    /\ UNCHANGED <<argv, countries, game_mode, source, target, printed, bfs_calls, paths, minimum>>
    /\ UNCHANGED game_vars
    /\ UNCHANGED exited

\* Mutant: the loop ends as soon as the target has been seen (enqueued).
BfsReturn_on_enqueue ==
    /\ pc = "bfs"
    /\ target \in DOMAIN parent_map
    /\ LET min == chain_length(parent_map, target, source) IN
          /\ minimum' = min
          /\ paths' = get_paths(source, target, parent_map, min)
    /\ pc' = "returned"
    /\ UNCHANGED <<argv, countries, game_mode, source, target, printed, bfs_calls>>
    /\ UNCHANGED bfs_vars
    /\ UNCHANGED game_vars
    /\ UNCHANGED exited

\* The loop has ended: measure one parent chain, rebuild the paths, return.
BfsReturn ==
    /\ pc = "bfs"
    /\ current = target
    /\ LET min == chain_length(parent_map, current, source) IN
          /\ minimum' = min
          /\ paths' = get_paths(source, target, parent_map, min)
    /\ pc' = "returned"
    /\ UNCHANGED <<argv, countries, game_mode, source, target, printed, bfs_calls>>
    /\ UNCHANGED bfs_vars
    /\ UNCHANGED game_vars
    /\ UNCHANGED exited

\* search() after bfs: the paths number is read now, int() failing prints and
\* calls usage(); then the header line and the first nb_paths paths.
SearchPrint ==
    /\ pc = "returned"
    /\ game_mode = "search"
    /\ IF argv.len = 5 /\ ~argv.count.int
       THEN /\ printed' = <<[kind |-> "NotAnInteger", nodes |-> << >>]>>
            /\ exited' = usage
            /\ pc' = "exit"
            /\ UNCHANGED shown
       ELSE LET nb_paths == IF argv.len = 5 THEN Min({argv.count.value, Len(paths)})
                                            ELSE Len(paths)
            IN  /\ shown' = [kind |-> "search", count |-> Len(paths), length |-> minimum,
                             paths |-> [i \in 1..nb_paths |-> <<source>> \o paths[i]]]
                /\ pc' = "done"
                /\ UNCHANGED <<printed, exited>>
    /\ UNCHANGED <<argv, countries, game_mode, source, target, bfs_calls, paths, minimum>>
    /\ UNCHANGED bfs_vars
    /\ UNCHANGED <<remaining_paths, guesses, nb_mistakes, guess>>

\* Mutant: remaining_paths is a deep copy, its paths keep the target.
GameStart_deep_copy ==
    /\ pc = "returned"
    /\ game_mode = "game"
    /\ paths' = [i \in 1..Len(paths) |-> Trimmed(paths[i])]
    /\ remaining_paths' = paths
    /\ guesses' = {}
    /\ pc' = IF loop_condition(nb_mistakes) THEN "game" ELSE "lost"
    /\ UNCHANGED <<argv, countries, game_mode, source, target, printed, bfs_calls, minimum>>
    /\ UNCHANGED bfs_vars
    /\ UNCHANGED <<nb_mistakes, guess, shown>>
    /\ UNCHANGED exited

\* game(): remaining_paths = paths.copy() shares the path lists with paths, so
\* path.pop(-1) takes the target off the paths of both.
GameStart ==
    /\ pc = "returned"
    /\ game_mode = "game"
    /\ paths' = [i \in 1..Len(paths) |-> Trimmed(paths[i])]
    /\ remaining_paths' = [i \in 1..Len(paths) |-> Trimmed(paths[i])]
    /\ guesses' = {}
    /\ pc' = IF loop_condition(nb_mistakes) THEN "game" ELSE "lost"
    /\ UNCHANGED <<argv, countries, game_mode, source, target, printed, bfs_calls, minimum>>
    /\ UNCHANGED bfs_vars
    /\ UNCHANGED <<nb_mistakes, guess, shown>>
    /\ UNCHANGED exited

\* Mutant: a guess that is already in the guess set is not accepted again.
Guess_repeat_rejected(g) ==
    /\ pc = "game"
    /\ guess' = g
    /\ LET known == guesses \cup {g}
           won == Winning(paths, known)
           subset_flag == g \notin guesses /\ \E i \in 1..Len(paths) : known \subseteq Range(paths[i])
       IN  IF won # {}
           THEN \* Target reached: print and return
                /\ guesses' = known
                /\ shown' = [kind |-> "won",
                             path |-> <<source>> \o paths[Min(won)] \o <<target>>,
                             mistakes |-> nb_mistakes]
                /\ pc' = "won"
                /\ UNCHANGED <<remaining_paths, nb_mistakes>>
           ELSE IF subset_flag
           THEN \* Right guess
                LET narrowed == get_remaining_paths(remaining_paths, known) IN
                /\ guesses' = known
                /\ remaining_paths' = narrowed
                /\ IF narrowed = << >>
                   THEN pc' = "crash" /\ shown' = Nothing
                   ELSE /\ pc' = "game"
                        /\ shown' = [kind |-> "partial", path |-> narrowed[1],
                                     text |-> print_incomplete_path(narrowed[1], known)]
                /\ UNCHANGED nb_mistakes
           ELSE \* Wrong guess
                /\ nb_mistakes' = nb_mistakes + 1
                /\ guesses' = remove_guess(known, g)
                /\ UNCHANGED remaining_paths
                /\ IF nb_mistakes + 1 = max_mistakes
                   THEN \* Game over: print_paths(source, target, remaining_paths)
                        \* and to_dot(source, [path + [target] for path in paths])
                        IF remaining_paths = << >>
                        THEN pc' = "crash" /\ shown' = Nothing
                        ELSE /\ shown' = [kind |-> "lost",
                                          count |-> Len(remaining_paths),
                                          length |-> Len(remaining_paths[1]),
                                          paths |-> [i \in 1..Len(remaining_paths) |->
                                              <<source>> \o remaining_paths[i] \o <<target>>],
                                          drawn |-> [i \in 1..Len(paths) |->
                                              paths[i] \o <<target>>]]
                             /\ pc' = IF loop_condition(nb_mistakes + 1) THEN "game" ELSE "lost"
                   ELSE /\ shown' = [kind |-> "mistake", count |-> nb_mistakes + 1]
                        /\ pc' = IF loop_condition(nb_mistakes + 1) THEN "game" ELSE "lost"
    /\ UNCHANGED <<argv, countries, game_mode, source, target, printed, bfs_calls, paths, minimum>>
    /\ UNCHANGED bfs_vars
    /\ UNCHANGED exited

\* One turn of game()'s loop on the input g.
Guess(g) ==
    /\ pc = "game"
    /\ guess' = g
    /\ LET known == guesses \cup {g}
           won == Winning(paths, known)
           subset_flag == \E i \in 1..Len(paths) : known \subseteq Range(paths[i])
       IN  IF won # {}
           THEN \* Target reached: print and return
                /\ guesses' = known
                /\ shown' = [kind |-> "won",
                             path |-> <<source>> \o paths[Min(won)] \o <<target>>,
                             mistakes |-> nb_mistakes]
                /\ pc' = "won"
                /\ UNCHANGED <<remaining_paths, nb_mistakes>>
           ELSE IF subset_flag
           THEN \* Right guess
                LET narrowed == get_remaining_paths(remaining_paths, known) IN
                /\ guesses' = known
                /\ remaining_paths' = narrowed
                /\ IF narrowed = << >>
                   THEN pc' = "crash" /\ shown' = Nothing
                   ELSE /\ pc' = "game"
                        /\ shown' = [kind |-> "partial", path |-> narrowed[1],
                                     text |-> print_incomplete_path(narrowed[1], known)]
                /\ UNCHANGED nb_mistakes
           ELSE \* Wrong guess
                /\ nb_mistakes' = nb_mistakes + 1
                /\ guesses' = remove_guess(known, g)
                /\ UNCHANGED remaining_paths
                /\ IF nb_mistakes + 1 = max_mistakes
                   THEN \* Game over: print_paths(source, target, remaining_paths)
                        \* and to_dot(source, [path + [target] for path in paths])
                        IF remaining_paths = << >>
                        THEN pc' = "crash" /\ shown' = Nothing
                        ELSE /\ shown' = [kind |-> "lost",
                                          count |-> Len(remaining_paths),
                                          length |-> Len(remaining_paths[1]),
                                          paths |-> [i \in 1..Len(remaining_paths) |->
                                              <<source>> \o remaining_paths[i] \o <<target>>],
                                          drawn |-> [i \in 1..Len(paths) |->
                                              paths[i] \o <<target>>]]
                             /\ pc' = IF loop_condition(nb_mistakes + 1) THEN "game" ELSE "lost"
                   ELSE /\ shown' = [kind |-> "mistake", count |-> nb_mistakes + 1]
                        /\ pc' = IF loop_condition(nb_mistakes + 1) THEN "game" ELSE "lost"
    /\ UNCHANGED <<argv, countries, game_mode, source, target, printed, bfs_calls, paths, minimum>>
    /\ UNCHANGED bfs_vars
    /\ UNCHANGED exited

Turn == \E g \in Nodes : Guess(g)

Next ==
    \/ GameChoose
    \/ GameDraw
    \/ CheckGraph
    \/ BfsEnter
    \/ BfsStep
    \/ BfsReturn
    \/ SearchPrint
    \/ GameStart
    \/ Turn

Spec == Init /\ [][Next]_vars

\* ---------------------------------------------------------- search() alone
\* search() on a well-formed command line: bfs on every source and target.
\* The statements of a call run one after the other, so a step that can be
\* taken is taken: weak fairness of each step of bfs.  BfsReturn is enabled
\* exactly when the loop has ended (pc = "bfs" and current = target), and its
\* fairness is written with that condition in the place of ENABLED.
SearchInit == Init /\ game_mode = "search"

SearchNext ==
    \/ CheckGraph
    \/ BfsEnter
    \/ BfsStep
    \/ BfsReturn
    \/ SearchPrint

SearchSpec ==
    /\ SearchInit
    /\ [][SearchNext]_vars
    /\ WF_vars(BfsEnter) /\ WF_vars(BfsStep)
    /\ ([]<>~(pc = "bfs" /\ current = target) \/ []<><<BfsReturn>>_vars)

\* ------------------------------------------------------- the command line
\* The paths numbers tried: integers around the number of paths, and a text
\* int() rejects.
Counts ==
    {[given |-> TRUE, int |-> TRUE, value |-> k] : k \in -1..MaxCount}
        \cup {[given |-> TRUE, int |-> FALSE]}

\* Every command line of up to MaxArgs words after the program's name.
CommandLines ==
    {Arguments(1, "", 0, 0, NoCount)}
        \cup {Arguments(2, m, 0, 0, NoCount) : m \in {"game", "search", "other"}}
        \cup {Arguments(3, m, s, 0, NoCount) : m \in {"game", "search", "other"}, s \in Nodes}
        \cup {Arguments(4, m, st[1], st[2], NoCount) :
                 m \in {"game", "search", "other"}, st \in Nodes \X Nodes}
        \cup {Arguments(n, m, st[1], st[2], c) :
                 n \in 5..(MaxArgs + 1), m \in {"game", "search", "other"},
                 st \in Nodes \X Nodes, c \in Counts}

\* The process at its start: nothing is read but sys.argv.
CliInit ==
    /\ argv \in CommandLines
    /\ exited = Running
    /\ countries \in Graphs
    /\ game_mode = ""
    /\ source = 0 /\ target = 0
    /\ pc = "main"
    /\ printed = << >>
    /\ bfs_calls = 0
    /\ visited = {} /\ queue = << >> /\ current = 0
    /\ parent_map = [n \in {} |-> None]
    /\ paths = << >> /\ minimum = 0
    /\ remaining_paths = << >> /\ guesses = {} /\ nb_mistakes = 0
    /\ guess = 0
    /\ shown = Nothing

\* The block under __main__, and search() up to its call of check_graph.
Main ==
    /\ pc = "main"
    /\ IF argv.len < 2
       THEN /\ exited' = usage /\ pc' = "exit"
            /\ UNCHANGED <<game_mode, source, target, printed>>
       ELSE /\ game_mode' = argv.mode
            /\ IF argv.mode = "game"
               THEN /\ IF argv.len # 2
                       THEN exited' = usage /\ pc' = "exit"
                       ELSE exited' = exited /\ pc' = "choose"
                    /\ UNCHANGED <<source, target, printed>>
               ELSE IF argv.mode = "search"
               THEN IF argv.len \notin {4, 5}
                    THEN /\ printed' = <<[kind |-> "InvalidNumber", nodes |-> << >>]>>
                         /\ exited' = usage /\ pc' = "exit"
                         /\ UNCHANGED <<source, target>>
                    ELSE /\ source' = argv.source
                         /\ target' = argv.target
                         /\ pc' = "check"
                         /\ UNCHANGED <<printed, exited>>
               ELSE /\ exited' = usage /\ pc' = "exit"
                    /\ UNCHANGED <<source, target, printed>>
    /\ UNCHANGED <<argv, countries, bfs_calls, paths, minimum>>
    /\ UNCHANGED bfs_vars
    /\ UNCHANGED game_vars

CliNext == Main \/ Next

CliSpec == CliInit /\ [][CliNext]_vars

\* --------------------------------------------- print_incomplete_path alone
\* game() at its call print_incomplete_path(remaining_paths[0], guesses), on
\* any list of labels and any guess set.
PresenterInit ==
    /\ argv = Arguments(2, "game", 0, 0, NoCount)
    /\ exited = Running
    /\ countries \in {g \in WellFormed : g.keys = <<1>>}
    /\ game_mode = "game"
    /\ source = 0 /\ target = 0
    /\ pc = "present"
    /\ printed = << >>
    /\ bfs_calls = 0
    /\ visited = {} /\ queue = << >> /\ current = 0
    /\ parent_map = [n \in {} |-> None]
    /\ paths = << >> /\ minimum = 0
    /\ \E n \in 0..MaxPath : \E path \in [1..n -> Nodes] : remaining_paths = <<path>>
    /\ guesses \in SUBSET Nodes
    /\ nb_mistakes = 0
    /\ guess = 0
    /\ shown = Nothing

PresentPath ==
    /\ pc = "present"
    /\ shown' = [kind |-> "partial", path |-> remaining_paths[1],
                 text |-> print_incomplete_path(remaining_paths[1], guesses)]
    /\ pc' = "presented"
    /\ UNCHANGED <<argv, countries, game_mode, source, target, printed, bfs_calls, paths, minimum>>
    /\ UNCHANGED bfs_vars
    /\ UNCHANGED <<remaining_paths, guesses, nb_mistakes, guess>>
    /\ UNCHANGED exited

PresenterNext == PresentPath

PresenterSpec == PresenterInit /\ [][PresenterNext]_vars

\* ------------------------------------------------- what the claims speak of
\* b is written on a's line.
Adjacent(graph, a, b) == a \in KeySet(graph) /\ b \in Range(graph.nbrs[a])

\* The nodes one edge away from a node of S.
Step(graph, S) == {m \in KeySet(graph) : \E n \in S : Adjacent(graph, n, m)}

\* The nodes reachable from a node of S.
RECURSIVE Closure(_, _)
Closure(graph, S) ==
    IF Step(graph, S) \subseteq S THEN S ELSE Closure(graph, S \cup Step(graph, S))

Reachable(graph, s) == Closure(graph, {s})

\* The least k with t within k edges of S, counted from k0 (t reachable from S).
RECURSIVE EdgesTo(_, _, _, _)
EdgesTo(graph, S, t, k0) ==
    IF t \in S THEN k0 ELSE EdgesTo(graph, S \cup Step(graph, S), t, k0 + 1)

\* The shortest edge count from s to t (t reachable from s).
Distance(graph, s, t) == EdgesTo(graph, {s}, t, 0)

\* w lists the nodes after s of a walk from s to t: Len(w) is its edge count.
IsWalk(graph, s, w, t) ==
    /\ Len(w) >= 1
    /\ w[Len(w)] = t
    /\ Adjacent(graph, s, w[1])
    /\ \A i \in 1..(Len(w) - 1) : Adjacent(graph, w[i], w[i + 1])

\* Every walk from s to t of the shortest edge count.
MinWalks(graph, s, t) ==
    {w \in [1..Distance(graph, s, t) -> KeySet(graph)] : IsWalk(graph, s, w, t)}

EntryViolated == source \notin KeySet(countries) \/ target \notin KeySet(countries)

AdjacencyViolated ==
    \E n \in KeySet(countries) : \E m \in Range(countries.nbrs[n]) :
        m \notin KeySet(countries) \/ ~Adjacent(countries, m, n)

\* The keys the first key does not reach.
Unreached == KeySet(countries) \ Reachable(countries, Head(countries.keys))

ValidInput ==
    /\ ~EntryViolated
    /\ ~AdjacencyViolated
    /\ \A a \in KeySet(countries) : Reachable(countries, a) = KeySet(countries)

Kinds(out) == {out[i].kind : i \in 1..Len(out)}

EntryKinds == {"UnknownSource", "UnknownTarget"}

AdjacencyKinds == {"NotAKey", "OneWay"}

\* check_graph has just returned.
Checked == pc \in {"exit", "call_bfs"}

InSession == pc \in {"game", "won", "lost"}

\* ------------------------------------------------------------------- claims
\* C1: when bfs returns for source # target, the distance it returns is the
\* shortest edge count from source to target, and every returned path is a
\* walk of the graph from source to target with exactly that many edges.
C1_ShortestWalks ==
    (pc = "returned" /\ source # target) =>
        /\ minimum = Distance(countries, source, target)
        /\ \A i \in 1..Len(paths) :
              /\ IsWalk(countries, source, paths[i], target)
              /\ Len(paths[i]) = minimum

\* A parent recorded for the target lies in the target's own layer: the walk
\* through it is longer than the minimum and has to be pruned.
C1_Witness ==
    /\ pc = "returned"
    /\ minimum >= 2
    /\ Len(paths) >= 1
    /\ \E i \in 1..Len(parent_map[target]) :
          Distance(countries, source, parent_map[target][i]) = minimum

\* C2: the returned PathSet holds every minimum-length walk from source to
\* target exactly once, and nothing else.
C2_Exhaustive ==
    (pc = "returned" /\ source # target) =>
        /\ \A w \in MinWalks(countries, source, target) :
              Cardinality({i \in 1..Len(paths) : paths[i] = w}) = 1
        /\ \A i \in 1..Len(paths) : paths[i] \in MinWalks(countries, source, target)

\* Two shortest paths whose last hops differ, one hop's parent list holding a
\* node of its own layer.
C2_Witness ==
    /\ pc = "returned"
    /\ Len(paths) >= 2
    /\ \E n \in DOMAIN parent_map : \E i \in 1..Len(parent_map[n]) :
          /\ parent_map[n][i] # source
          /\ Distance(countries, source, parent_map[n][i]) = Distance(countries, source, n)

\* C3 as stated: the session is won exactly when the guess set equals the
\* node set of a remaining path counted with its source (source plus interior).
C3_WonWithSource ==
    InSession =>
        (pc = "won" <=>
            \E i \in 1..Len(remaining_paths) :
                LET trimmed == <<source>> \o remaining_paths[i] IN
                /\ Len(trimmed) = Cardinality(guesses)
                /\ Range(trimmed) = guesses)

\* C3 amended: the paths of the session hold the interior nodes only (neither
\* source nor target).  The session is won exactly when the guess set equals
\* the node set of a remaining path of as many nodes; the full path, from
\* source to target, and the mistake count are then shown.  On 1-2-3 from 1
\* to 3 the guess 2 alone wins with 0 mistakes.
C3_WonOnInterior ==
    InSession =>
        /\ pc = "won" <=>
              \E i \in 1..Len(remaining_paths) :
                  /\ Len(remaining_paths[i]) = Cardinality(guesses)
                  /\ Range(remaining_paths[i]) = guesses
        /\ pc = "won" =>
              /\ shown.kind = "won"
              /\ shown.mistakes = nb_mistakes
              /\ \E i \in 1..Len(remaining_paths) :
                    /\ Range(remaining_paths[i]) = guesses
                    /\ shown.path = <<source>> \o remaining_paths[i] \o <<target>>

C3_Witness ==
    /\ pc = "won"
    /\ countries.keys = <<1, 2, 3>>
    /\ countries.nbrs = [n \in 1..3 |-> IF n = 2 THEN <<1, 3>> ELSE <<2>>]
    /\ source = 1 /\ target = 3
    /\ guesses = {2}
    /\ shown.mistakes = 0

\* Neither the win check nor the partial-match check holds for the guess set
\* with g added.
IsMistake(g) ==
    LET known == guesses \cup {g} IN
    /\ ~\E i \in 1..Len(paths) :
          Len(paths[i]) = Cardinality(known) /\ Range(paths[i]) = known
    /\ ~\E i \in 1..Len(paths) : known \subseteq Range(paths[i])

\* C4: a turn whose guess is neither a win nor on track adds exactly one
\* mistake and leaves the guess set and the remaining paths as they were.
C4_WrongGuessLeavesSession ==
    [][(pc = "game" /\ IsMistake(guess')) =>
          /\ nb_mistakes' = nb_mistakes + 1
          /\ guesses' = guesses
          /\ remaining_paths' = remaining_paths]_vars

C4_Witness ==
    /\ shown.kind = "mistake"
    /\ nb_mistakes = 2
    /\ guesses # {}

\* C5: when the mistake count reaches the budget the session is lost and what
\* is shown is the full PathSet and the distance between source and target.
C5_LossShowsAllPaths ==
    pc = "lost" =>
        /\ shown.kind = "lost"
        /\ Range(shown.paths) = {<<source>> \o w : w \in MinWalks(countries, source, target)}
        /\ shown.length = Distance(countries, source, target)

\* Strictly ascending in Python's list order.
Ascends(ps) == \A i \in 1..(Len(ps) - 1) : ListLess(ps[i], ps[i + 1])

IsOnTrack(g) ==
    LET known == guesses \cup {g} IN
    /\ ~\E i \in 1..Len(paths) :
          Len(paths[i]) = Cardinality(known) /\ Range(paths[i]) = known
    /\ \E i \in 1..Len(paths) : known \subseteq Range(paths[i])

C7_TerminalStates ==
    /\ [][(pc = "won" \/ nb_mistakes >= max_mistakes) =>
             /\ UNCHANGED <<guesses, remaining_paths, nb_mistakes, guess, shown>>
             /\ pc' = pc]_vars
    /\ [](nb_mistakes <= max_mistakes)

C7_Witness ==
    /\ pc = "lost"
    /\ nb_mistakes = max_mistakes
    /\ guesses # {}

\* C8 as stated: every violation the input has is reported by check_graph.
C8_AllViolationsReported ==
    pc = "exit" =>
        /\ EntryViolated => Kinds(printed) \cap EntryKinds # {}
        /\ AdjacencyViolated => Kinds(printed) \cap AdjacencyKinds # {}
        /\ (~AdjacencyViolated /\ Unreached # {}) => "Disconnected" \in Kinds(printed)

\* C8 amended: check_graph runs the checks in the order entry, adjacency,
\* connectedness and stops at the first that fails: one violation is
\* reported, that of the first failing check, and nothing on a valid input.
C8_FirstViolationOnly ==
    Checked =>
        /\ Len(printed) <= 1
        /\ EntryViolated => Kinds(printed) \subseteq EntryKinds /\ printed # << >>
        /\ (~EntryViolated /\ AdjacencyViolated) =>
              Kinds(printed) \subseteq AdjacencyKinds /\ printed # << >>
        /\ (~EntryViolated /\ ~AdjacencyViolated /\ Unreached # {}) =>
              Kinds(printed) = {"Disconnected"}
        /\ (~EntryViolated /\ ~AdjacencyViolated /\ Unreached = {}) => printed = << >>

C8_Witness ==
    /\ pc = "exit"
    /\ EntryViolated
    /\ AdjacencyViolated
    /\ Cardinality(KeySet(countries)) >= 2
    /\ Len(printed) = 1

Closed(graph) == \A n \in KeySet(graph) : Range(graph.nbrs[n]) \subseteq KeySet(graph)

\* C10: check_connectedness fails exactly when some key is not reachable from
\* the first key, and the nodes it names are exactly the unreached keys; on a
\* connected graph it reports nothing.
C10_ConnectednessReport ==
    /\ (pc \in {"choose", "check"} /\ Closed(countries)) =>
          LET r == check_connectedness(countries) IN
          /\ r.error <=> Unreached # {}
          /\ r.error => /\ Len(r.out) = 1
                        /\ r.out[1].kind = "Disconnected"
                        /\ Range(r.out[1].nodes) = Unreached
                        /\ Len(r.out[1].nodes) = Cardinality(Unreached)
          /\ ~r.error => r.out = << >>
    /\ (Checked /\ ~EntryViolated /\ ~AdjacencyViolated) =>
          /\ pc = "exit" <=> Unreached # {}
          /\ pc = "exit" => /\ Len(printed) = 1
                            /\ printed[1].kind = "Disconnected"
                            /\ Range(printed[1].nodes) = Unreached
          /\ pc # "exit" => printed = << >>

C10_Witness ==
    /\ pc = "exit"
    /\ printed # << >>
    /\ printed[1].kind = "Disconnected"
    /\ Len(printed[1].nodes) >= 2
    /\ Cardinality(Reachable(countries, Head(countries.keys))) >= 2

\* The line names a violation the data set has: a neighbour that is no key,
\* or a pair n, m with m on n's line and n missing on m's line.
NamesViolation(graph, line) ==
    \/ /\ line.kind = "NotAKey"
       /\ Len(line.nodes) = 1
       /\ line.nodes[1] \notin KeySet(graph)
       /\ \E n \in KeySet(graph) : Adjacent(graph, n, line.nodes[1])
    \/ /\ line.kind = "OneWay"
       /\ Len(line.nodes) = 2
       /\ Adjacent(graph, line.nodes[1], line.nodes[2])
       /\ line.nodes[2] \in KeySet(graph)
       /\ ~Adjacent(graph, line.nodes[2], line.nodes[1])

\* C11: check_adjacency reports a failure exactly when some node N has a
\* neighbour M that is no key of the graph or whose neighbour list lacks N,
\* and the line it prints names such a pair; on a closed and symmetric graph
\* it reports nothing.
C11_AdjacencyReport ==
    /\ pc \in {"choose", "check"} =>
          LET r == check_adjacency(countries) IN
          /\ r.error <=> AdjacencyViolated
          /\ r.error => Len(r.out) = 1 /\ NamesViolation(countries, r.out[1])
          /\ ~r.error => r.out = << >>
    /\ (Checked /\ ~EntryViolated) =>
          /\ AdjacencyViolated <=> (pc = "exit" /\ Kinds(printed) \subseteq AdjacencyKinds)
          /\ AdjacencyViolated => Len(printed) = 1 /\ NamesViolation(countries, printed[1])

\* Every neighbour is a key, one edge is written on one line only.
C11_Witness ==
    /\ pc = "exit"
    /\ Closed(countries)
    /\ printed # << >>
    /\ printed[1].kind = "OneWay"

\* The places of path that start an item of the display: a known node, or the
\* first node of a maximal run of unknown nodes.
ItemStarts(path, known) ==
    {i \in 1..Len(path) : path[i] \in known \/ i = 1 \/ path[i - 1] \in known}

\* The k-th smallest member of a set of numbers.
Nth(S, k) == CHOOSE i \in S : Cardinality({j \in S : j < i}) = k - 1

\* The items of a display, without the arrows between them.
ItemsOf(text) == [k \in 1..((Len(text) + 1) \div 2) |-> text[2 * k - 1]]

\* C12: for any path and any set of known nodes the display lists the known
\* nodes in path order, shows every maximal run of unknown nodes (before the
\* first known node, between two, after the last) as exactly one "...", and
\* puts exactly one arrow between adjacent items, none in front and none at
\* the end.  1,2,3,4 with 1 and 4 known gives 1 -> ... -> 4.
C12_GapsCollapsed ==
    pc = "presented" =>
        LET path == shown.path
            known == guesses
            text == shown.text
            starts == ItemStarts(path, known)
            items == ItemsOf(text)
            IsNode(x) == x # Gap
            IsKnown(x) == x \in known
        IN  /\ Len(text) = IF starts = {} THEN 0 ELSE 2 * Cardinality(starts) - 1
            /\ \A j \in 1..Len(text) : (text[j] = Arrow) <=> (j % 2 = 0)
            /\ \A k \in 1..Len(items) :
                  items[k] = IF path[Nth(starts, k)] \in known
                             THEN path[Nth(starts, k)] ELSE Gap
            /\ SelectSeq(items, IsNode) = SelectSeq(path, IsKnown)
            /\ \A k \in 1..(Len(items) - 1) : ~(items[k] = Gap /\ items[k + 1] = Gap)

C12_Witness ==
    /\ pc = "presented"
    /\ shown.path = <<1, 2, 3, 4>>
    /\ guesses = {1, 4}
    /\ shown.text = <<1, Arrow, Gap, Arrow, 4>>

\* C13: the PathSet bfs returns is in ascending lexicographic order of the
\* label sequences, and it is a function of the graph, the source and the
\* target alone: it is the ascending listing of the shortest walks, and the
\* distance is the shortest edge count, whatever the order in which the data
\* set lists the neighbours, so two invocations on the same input return the
\* same PathSet and distance.
C13_SortedPathSet ==
    pc = "returned" =>
        /\ Ascends(paths)
        /\ source # target =>
              /\ Range(paths) = MinWalks(countries, source, target)
              /\ minimum = Distance(countries, source, target)

\* The recursion over the parent lists produced the paths in another order.
C13_Witness ==
    /\ pc = "returned"
    /\ Len(paths) >= 2
    /\ get_paths_aux(<< >>, << >>, target, parent_map, minimum).paths # paths

\* C14: bfs(graph, x, x) returns an empty PathSet and the distance 0, and the
\* loop is never entered: bfs's locals are never set.
C14_SameNode ==
    (bfs_calls > 0 /\ source = target) =>
        /\ pc \in {"returned", "done"}
        /\ paths = << >>
        /\ minimum = 0
        /\ visited = {} /\ queue = << >> /\ current = 0
        /\ DOMAIN parent_map = {}

C14_Witness ==
    /\ pc = "done"
    /\ source = target
    /\ Cardinality(KeySet(countries)) >= 3
    /\ shown.kind = "search"
    /\ shown.count = 0
    /\ shown.length = 0

\* C15: every failure path (a wrong number of arguments, a paths number that
\* is no integer, a violation found by check_graph) prints usage and ends the
\* process with a status that is not zero.
C15_FailureExitsNonZero ==
    pc = "exit" => (exited.by = "usage" /\ exited.status # 0)

\* bfs is in its loop or has just left it.
InBfs == pc \in {"bfs", "returned"} /\ DOMAIN parent_map # {}

\* The length of the longest chain of parents from node back to the source.
RECURSIVE LongestChain(_, _)
LongestChain(pm, node) ==
    IF pm[node] = None THEN 0
    ELSE 1 + Max({LongestChain(pm, pm[node][i]) : i \in 1..Len(pm[node])})

\* C16 as stated: at every point of the BFS every P in parent_map[N], N not
\* the source, is one layer before N, dist(source, P) + 1 = dist(source, N),
\* so every parent chain from the target has the length of the shortest
\* distance; only the source has the sentinel entry.
C16_ParentsOneLayerBefore ==
    InBfs =>
        /\ \A n \in DOMAIN parent_map : (parent_map[n] = None) <=> (n = source)
        /\ \A n \in DOMAIN parent_map \ {source} : \A i \in 1..Len(parent_map[n]) :
              Distance(countries, source, parent_map[n][i]) + 1
                  = Distance(countries, source, n)
        /\ (pc = "returned") =>
              LongestChain(parent_map, target) = Distance(countries, source, target)

\* C16 amended: at every point of the BFS every P in parent_map[N], N not the
\* source, is a dequeued neighbour of N that lies one layer before N or in
\* N's own layer (a node of N's layer dequeued before N), no P twice; the
\* first entry of parent_map[N] lies one layer before N, so the chain of first
\* parents from the target, the one bfs measures, has the length of the
\* shortest distance, while other chains can be longer.  Only the source has
\* the sentinel entry.
C16_ParentsOwnOrPreviousLayer ==
    InBfs =>
        /\ \A n \in DOMAIN parent_map : (parent_map[n] = None) <=> (n = source)
        /\ \A n \in DOMAIN parent_map \ {source} :
              LET d == Distance(countries, source, n) IN
              /\ Distance(countries, source, parent_map[n][1]) + 1 = d
              /\ \A i \in 1..Len(parent_map[n]) :
                    /\ parent_map[n][i] \in visited
                    /\ Adjacent(countries, parent_map[n][i], n)
                    /\ Distance(countries, source, parent_map[n][i]) \in {d - 1, d}
                    /\ \A j \in 1..Len(parent_map[n]) :
                          parent_map[n][i] = parent_map[n][j] => i = j
        /\ (pc = "returned") =>
              /\ chain_length(parent_map, target, source)
                    = Distance(countries, source, target)
              /\ minimum = Distance(countries, source, target)

\* The loop records a parent that lies in the node's own layer.
C16_Witness ==
    /\ pc = "bfs"
    /\ \E n \in DOMAIN parent_map \ {source} : \E i \in 1..Len(parent_map[n]) :
          Distance(countries, source, parent_map[n][i]) = Distance(countries, source, n)

NoDuplicates(q) == \A i, j \in 1..Len(q) : q[i] = q[j] => i = j

\* C17: during the BFS of bfs a node enters the queue at most once: the queue
\* never holds a node twice, a pass of the loop moves the head of the queue to
\* the dequeued nodes, which only grow, and appends only nodes that are
\* neither in the queue nor dequeued.  (A node in the queue still receives
\* parents: see the witness.)
C17_EnqueuedOnce ==
    /\ [](pc = "bfs" => (NoDuplicates(queue) /\ Range(queue) \cap visited = {}))
    /\ [][(pc = "bfs" /\ pc' = "bfs") =>
             /\ visited' = visited \cup {Head(queue)}
             /\ Len(queue') >= Len(queue) - 1
             /\ SubSeq(queue', 1, Len(queue) - 1) = Tail(queue)
             /\ LET added == SubSeq(queue', Len(queue), Len(queue')) IN
                   Range(added) \cap (Range(queue) \cup visited') = {}]_vars

\* A node waiting in the queue has received a second parent.
C17_Witness ==
    /\ pc = "bfs"
    /\ \E i \in 1..Len(queue) :
          /\ queue[i] \in DOMAIN parent_map
          /\ Len(parent_map[queue[i]]) >= 2

\* C18: on a validated graph with source # target the loop of bfs ends and
\* bfs returns (the paths are rebuilt); the loop goes on while the target is
\* only enqueued and ends with the pass that dequeues it; no pass finds the
\* queue empty.
C18_BfsTerminates ==
    /\ (pc = "call_bfs" /\ source # target) ~> (pc = "returned")
    /\ [](pc # "crash")
    /\ [][(pc = "bfs" /\ current # target) =>
             /\ queue # << >>
             /\ pc' = "bfs"
             /\ current' = Head(queue)]_vars
    /\ [][(pc = "bfs" /\ pc' = "returned") =>
             /\ current = target
             /\ target \in visited
             /\ target \notin Range(queue)]_vars

\* bfs has returned; the target waited in the queue, where it received a
\* second parent, and nodes are left in the queue.
C18_Witness ==
    /\ pc = "returned"
    /\ source # target
    /\ Len(parent_map[target]) >= 2
    /\ queue # << >>

\* The guess set lies within a trimmed path, and remaining_paths lists, in
\* order, exactly the trimmed paths that contain the whole guess set.
SessionInvariant ==
    /\ \E i \in 1..Len(paths) : guesses \subseteq Range(paths[i])
    /\ \A i \in 1..Len(paths) : Len(paths[i]) = minimum - 1
    /\ remaining_paths # << >>
    /\ Range(remaining_paths) = {p \in Range(paths) : guesses \subseteq Range(p)}
    /\ Ascends(remaining_paths)

C20_RepeatedGuessIdempotent ==
    [][(pc = "game" /\ guess' \in guesses) =>
          /\ guesses' = guesses
          /\ remaining_paths' = remaining_paths
          /\ nb_mistakes' = nb_mistakes
          /\ pc' = "game"
          /\ shown'.kind = "partial"
          /\ shown'.path = remaining_paths[1]]_vars

\* The state a repeated guess leads to, the budget all but used.
C20_Witness ==
    /\ pc = "game"
    /\ guess \in guesses
    /\ Cardinality(guesses) = 1
    /\ nb_mistakes = max_mistakes - 1
    /\ shown.kind = "partial"
    /\ shown.path = remaining_paths[1]

====
